---------------------------- MODULE Spec2Model ----------------------------
(***************************************************************************)
(* Model of chile_data_cleaner/regiones.py: the ChileDataCleaner class     *)
(* (registry of INE region codes, reverse index, text normalizer, lookup). *)
(*                                                                         *)
(* A Python str is modelled as a sequence of Unicode code points, so that  *)
(* decomposition, mark removal, lowercasing and whitespace handling are    *)
(* computed character by character as the code does.  The modelled         *)
(* character universe is Latin-1 (0..255) plus the Combining Diacritical   *)
(* Marks block (768..879); it contains every character of the registry.    *)
(***************************************************************************)
EXTENDS Integers, Sequences, FiniteSets, TLC

VARIABLES
  regiones_ine,        \* self.regiones_ine: insertion-ordered dict, as a sequence of entries
  variantes_a_codigo,  \* self._variantes_a_codigo: dict normalized key -> code
  op,                  \* the operation that ran last
  entrada,             \* the argument the caller holds
  retorno,             \* its return value
  error,               \* the exception it raised, "" when it returned
  traza,               \* the instance attributes and helpers it consulted
  llamadas,            \* calls made so far in a session, counted up to MaxLlamadas
  hilos,               \* concurrent callers sharing the instance: each one's call in progress
  construccion         \* __init__'s place in its loops over the table: entry and variant

vars ==
  <<regiones_ine, variantes_a_codigo, op, entrada, retorno, error, traza, llamadas, hilos,
    construccion>>

(***************************************************************************)
(* Bounds of the explored inputs.                                          *)
(***************************************************************************)
MaxLen == 3       \* longest exhaustively enumerated input string
MaxEntero == 17   \* integer inputs range over -MaxEntero..MaxEntero
MaxLlamadas == 3  \* a session counts its calls up to this number
MaxHilos == 2     \* concurrent callers of one shared instance
MaxRegiones == 2  \* entries of an arbitrary registry table

(***************************************************************************)
(* Python values.  None is the empty tuple and a present Optional value a  *)
(* one-element tuple; arguments carry their dynamic type.                  *)
(***************************************************************************)
None == <<>>
Some(v) == <<v>>

ArgNone == [tipo |-> "None", int |-> 0, str |-> <<>>]
ArgInt(n) == [tipo |-> "int", int |-> n, str |-> <<>>]
ArgStr(s) == [tipo |-> "str", int |-> 0, str |-> s]

(***************************************************************************)
(* The registry literal of __init__, in the order it is written.           *)
(***************************************************************************)
\* 15: "Arica y Parinacota"
Region15 ==
  [codigo |-> 15,
   nombre_oficial |-> <<65,114,105,99,97,32,121,32,80,97,114,105,110,97,99,111,116,97>>,
   variantes |-> <<
     <<97,114,105,99,97,32,121,32,112,97,114,105,110,97,99,111,116,97>>,  \* "arica y parinacota"
     <<97,114,105,99,97>>,  \* "arica"
     <<114,101,103,105,111,110,32,100,101,32,97,114,105,99,97,32,121,32,112,97,114,105,110,97,99,111,116,97>>,  \* "region de arica y parinacota"
     <<120,118,32,114,101,103,105,111,110>>,  \* "xv region"
     <<120,118>>,  \* "xv"
     <<114,101,103,105,111,110,32,120,118>>,  \* "region xv"
     <<49,53>>  \* "15"
   >>]

\* 1: "Tarapac\xe1"
Region1 ==
  [codigo |-> 1,
   nombre_oficial |-> <<84,97,114,97,112,97,99,225>>,
   variantes |-> <<
     <<116,97,114,97,112,97,99,97>>,  \* "tarapaca"
     <<105,113,117,105,113,117,101>>,  \* "iquique"
     <<114,101,103,105,111,110,32,100,101,32,116,97,114,97,112,97,99,97>>,  \* "region de tarapaca"
     <<105,32,114,101,103,105,111,110>>,  \* "i region"
     <<105>>,  \* "i"
     <<114,101,103,105,111,110,32,105>>,  \* "region i"
     <<49>>  \* "1"
   >>]

\* 2: "Antofagasta"
Region2 ==
  [codigo |-> 2,
   nombre_oficial |-> <<65,110,116,111,102,97,103,97,115,116,97>>,
   variantes |-> <<
     <<97,110,116,111,102,97,103,97,115,116,97>>,  \* "antofagasta"
     <<114,101,103,105,111,110,32,100,101,32,97,110,116,111,102,97,103,97,115,116,97>>,  \* "region de antofagasta"
     <<105,105,32,114,101,103,105,111,110>>,  \* "ii region"
     <<105,105>>,  \* "ii"
     <<114,101,103,105,111,110,32,105,105>>,  \* "region ii"
     <<50>>  \* "2"
   >>]

\* 3: "Atacama"
Region3 ==
  [codigo |-> 3,
   nombre_oficial |-> <<65,116,97,99,97,109,97>>,
   variantes |-> <<
     <<97,116,97,99,97,109,97>>,  \* "atacama"
     <<99,111,112,105,97,112,111>>,  \* "copiapo"
     <<114,101,103,105,111,110,32,100,101,32,97,116,97,99,97,109,97>>,  \* "region de atacama"
     <<105,105,105,32,114,101,103,105,111,110>>,  \* "iii region"
     <<105,105,105>>,  \* "iii"
     <<114,101,103,105,111,110,32,105,105,105>>,  \* "region iii"
     <<51>>  \* "3"
   >>]

\* 4: "Coquimbo"
Region4 ==
  [codigo |-> 4,
   nombre_oficial |-> <<67,111,113,117,105,109,98,111>>,
   variantes |-> <<
     <<99,111,113,117,105,109,98,111>>,  \* "coquimbo"
     <<108,97,32,115,101,114,101,110,97>>,  \* "la serena"
     <<114,101,103,105,111,110,32,100,101,32,99,111,113,117,105,109,98,111>>,  \* "region de coquimbo"
     <<105,118,32,114,101,103,105,111,110>>,  \* "iv region"
     <<105,118>>,  \* "iv"
     <<114,101,103,105,111,110,32,105,118>>,  \* "region iv"
     <<52>>  \* "4"
   >>]

\* 5: "Valpara\xedso"
Region5 ==
  [codigo |-> 5,
   nombre_oficial |-> <<86,97,108,112,97,114,97,237,115,111>>,
   variantes |-> <<
     <<118,97,108,112,97,114,97,105,115,111>>,  \* "valparaiso"
     <<118,97,108,112,111>>,  \* "valpo"
     <<114,101,103,105,111,110,32,100,101,32,118,97,108,112,97,114,97,105,115,111>>,  \* "region de valparaiso"
     <<118,32,114,101,103,105,111,110>>,  \* "v region"
     <<118>>,  \* "v"
     <<114,101,103,105,111,110,32,118>>,  \* "region v"
     <<53>>  \* "5"
   >>]

\* 13: "Metropolitana de Santiago"
Region13 ==
  [codigo |-> 13,
   nombre_oficial |-> <<77,101,116,114,111,112,111,108,105,116,97,110,97,32,100,101,32,83,97,110,116,105,97,103,111>>,
   variantes |-> <<
     <<109,101,116,114,111,112,111,108,105,116,97,110,97>>,  \* "metropolitana"
     <<115,97,110,116,105,97,103,111>>,  \* "santiago"
     <<114,109>>,  \* "rm"
     <<114,101,103,105,111,110,32,109,101,116,114,111,112,111,108,105,116,97,110,97>>,  \* "region metropolitana"
     <<109,101,116,114,111,112,111,108,105,116,97,110,97,32,100,101,32,115,97,110,116,105,97,103,111>>,  \* "metropolitana de santiago"
     <<115,116,103,111>>,  \* "stgo"
     <<49,51>>  \* "13"
   >>]

\* 6: "Libertador General Bernardo O'Higgins"
Region6 ==
  [codigo |-> 6,
   nombre_oficial |-> <<76,105,98,101,114,116,97,100,111,114,32,71,101,110,101,114,97,108,32,66,101,114,110,97,114,100,111,32,79,39,72,105,103,103,105,110,115>>,
   variantes |-> <<
     <<111,104,105,103,103,105,110,115>>,  \* "ohiggins"
     <<111,39,104,105,103,103,105,110,115>>,  \* "o'higgins"
     <<108,105,98,101,114,116,97,100,111,114,32,103,101,110,101,114,97,108,32,98,101,114,110,97,114,100,111,32,111,39,104,105,103,103,105,110,115>>,  \* "libertador general bernardo o'higgins"
     <<114,97,110,99,97,103,117,97>>,  \* "rancagua"
     <<118,105,32,114,101,103,105,111,110>>,  \* "vi region"
     <<118,105>>,  \* "vi"
     <<114,101,103,105,111,110,32,118,105>>,  \* "region vi"
     <<54>>  \* "6"
   >>]

\* 7: "Maule"
Region7 ==
  [codigo |-> 7,
   nombre_oficial |-> <<77,97,117,108,101>>,
   variantes |-> <<
     <<109,97,117,108,101>>,  \* "maule"
     <<116,97,108,99,97>>,  \* "talca"
     <<114,101,103,105,111,110,32,100,101,108,32,109,97,117,108,101>>,  \* "region del maule"
     <<118,105,105,32,114,101,103,105,111,110>>,  \* "vii region"
     <<118,105,105>>,  \* "vii"
     <<114,101,103,105,111,110,32,118,105,105>>,  \* "region vii"
     <<55>>  \* "7"
   >>]

\* 16: "\xd1uble"
Region16 ==
  [codigo |-> 16,
   nombre_oficial |-> <<209,117,98,108,101>>,
   variantes |-> <<
     <<241,117,98,108,101>>,  \* "\xf1uble"
     <<110,117,98,108,101>>,  \* "nuble"
     <<99,104,105,108,108,97,110>>,  \* "chillan"
     <<114,101,103,105,111,110,32,100,101,32,241,117,98,108,101>>,  \* "region de \xf1uble"
     <<120,118,105,32,114,101,103,105,111,110>>,  \* "xvi region"
     <<120,118,105>>,  \* "xvi"
     <<114,101,103,105,111,110,32,120,118,105>>,  \* "region xvi"
     <<49,54>>  \* "16"
   >>]

\* region 8 also claiming "Chill\xe1n", a city of region 16
Region8_con_chillan ==
  [codigo |-> 8,
   nombre_oficial |-> <<66,105,111,98,237,111>>,
   variantes |-> <<
     <<98,105,111,98,105,111>>,  \* "biobio"
     <<98,105,111,32,98,105,111>>,  \* "bio bio"
     <<99,111,110,99,101,112,99,105,111,110>>,  \* "concepcion"
     <<67,104,105,108,108,225,110>>,  \* "Chill\xe1n"
     <<114,101,103,105,111,110,32,100,101,108,32,98,105,111,98,105,111>>,  \* "region del biobio"
     <<118,105,105,105,32,114,101,103,105,111,110>>,  \* "viii region"
     <<118,105,105,105>>,  \* "viii"
     <<114,101,103,105,111,110,32,118,105,105,105>>,  \* "region viii"
     <<56>>  \* "8"
   >>]

\* 8: "Biob\xedo"
Region8 ==
  [codigo |-> 8,
   nombre_oficial |-> <<66,105,111,98,237,111>>,
   variantes |-> <<
     <<98,105,111,98,105,111>>,  \* "biobio"
     <<98,105,111,32,98,105,111>>,  \* "bio bio"
     <<99,111,110,99,101,112,99,105,111,110>>,  \* "concepcion"
     <<114,101,103,105,111,110,32,100,101,108,32,98,105,111,98,105,111>>,  \* "region del biobio"
     <<118,105,105,105,32,114,101,103,105,111,110>>,  \* "viii region"
     <<118,105,105,105>>,  \* "viii"
     <<114,101,103,105,111,110,32,118,105,105,105>>,  \* "region viii"
     <<56>>  \* "8"
   >>]

\* 9: "Araucan\xeda"
Region9 ==
  [codigo |-> 9,
   nombre_oficial |-> <<65,114,97,117,99,97,110,237,97>>,
   variantes |-> <<
     <<97,114,97,117,99,97,110,105,97>>,  \* "araucania"
     <<116,101,109,117,99,111>>,  \* "temuco"
     <<114,101,103,105,111,110,32,100,101,32,108,97,32,97,114,97,117,99,97,110,105,97>>,  \* "region de la araucania"
     <<105,120,32,114,101,103,105,111,110>>,  \* "ix region"
     <<105,120>>,  \* "ix"
     <<114,101,103,105,111,110,32,105,120>>,  \* "region ix"
     <<57>>  \* "9"
   >>]

\* region 14 without its bare roman numeral
Region14_sin_romano ==
  [codigo |-> 14,
   nombre_oficial |-> <<76,111,115,32,82,237,111,115>>,
   variantes |-> <<
     <<108,111,115,32,114,105,111,115>>,  \* "los rios"
     <<114,105,111,115>>,  \* "rios"
     <<118,97,108,100,105,118,105,97>>,  \* "valdivia"
     <<114,101,103,105,111,110,32,100,101,32,108,111,115,32,114,105,111,115>>,  \* "region de los rios"
     <<120,105,118,32,114,101,103,105,111,110>>,  \* "xiv region"
     <<114,101,103,105,111,110,32,120,105,118>>,  \* "region xiv"
     <<49,52>>  \* "14"
   >>]

\* 14: "Los R\xedos"
Region14 ==
  [codigo |-> 14,
   nombre_oficial |-> <<76,111,115,32,82,237,111,115>>,
   variantes |-> <<
     <<108,111,115,32,114,105,111,115>>,  \* "los rios"
     <<114,105,111,115>>,  \* "rios"
     <<118,97,108,100,105,118,105,97>>,  \* "valdivia"
     <<114,101,103,105,111,110,32,100,101,32,108,111,115,32,114,105,111,115>>,  \* "region de los rios"
     <<120,105,118,32,114,101,103,105,111,110>>,  \* "xiv region"
     <<120,105,118>>,  \* "xiv"
     <<114,101,103,105,111,110,32,120,105,118>>,  \* "region xiv"
     <<49,52>>  \* "14"
   >>]

\* 10: "Los Lagos"
Region10 ==
  [codigo |-> 10,
   nombre_oficial |-> <<76,111,115,32,76,97,103,111,115>>,
   variantes |-> <<
     <<108,111,115,32,108,97,103,111,115>>,  \* "los lagos"
     <<108,97,103,111,115>>,  \* "lagos"
     <<112,117,101,114,116,111,32,109,111,110,116,116>>,  \* "puerto montt"
     <<114,101,103,105,111,110,32,100,101,32,108,111,115,32,108,97,103,111,115>>,  \* "region de los lagos"
     <<120,32,114,101,103,105,111,110>>,  \* "x region"
     <<120>>,  \* "x"
     <<114,101,103,105,111,110,32,120>>,  \* "region x"
     <<49,48>>  \* "10"
   >>]

\* 11: "Ays\xe9n del General Carlos Ib\xe1\xf1ez del Campo"
Region11 ==
  [codigo |-> 11,
   nombre_oficial |-> <<65,121,115,233,110,32,100,101,108,32,71,101,110,101,114,97,108,32,67,97,114,108,111,115,32,73,98,225,241,101,122,32,100,101,108,32,67,97,109,112,111>>,
   variantes |-> <<
     <<97,121,115,101,110>>,  \* "aysen"
     <<97,105,115,101,110>>,  \* "aisen"
     <<99,111,121,104,97,105,113,117,101>>,  \* "coyhaique"
     <<114,101,103,105,111,110,32,100,101,32,97,121,115,101,110>>,  \* "region de aysen"
     <<120,105,32,114,101,103,105,111,110>>,  \* "xi region"
     <<120,105>>,  \* "xi"
     <<114,101,103,105,111,110,32,120,105>>,  \* "region xi"
     <<49,49>>  \* "11"
   >>]

\* 12: "Magallanes y de la Ant\xe1rtica Chilena"
Region12 ==
  [codigo |-> 12,
   nombre_oficial |-> <<77,97,103,97,108,108,97,110,101,115,32,121,32,100,101,32,108,97,32,65,110,116,225,114,116,105,99,97,32,67,104,105,108,101,110,97>>,
   variantes |-> <<
     <<109,97,103,97,108,108,97,110,101,115>>,  \* "magallanes"
     <<112,117,110,116,97,32,97,114,101,110,97,115>>,  \* "punta arenas"
     <<97,110,116,97,114,116,105,99,97>>,  \* "antartica"
     <<97,110,116,225,114,116,105,99,97>>,  \* "ant\xe1rtica"
     <<114,101,103,105,111,110,32,100,101,32,109,97,103,97,108,108,97,110,101,115>>,  \* "region de magallanes"
     <<120,105,105,32,114,101,103,105,111,110>>,  \* "xii region"
     <<120,105,105>>,  \* "xii"
     <<114,101,103,105,111,110,32,120,105,105>>,  \* "region xii"
     <<49,50>>  \* "12"
   >>]

\* the registry with the code string "13" left out of region 13's variants
NoEs13(v) == v # <<49, 51>>
RegionesINE_sin_13 ==
  <<Region15, Region1, Region2, Region3, Region4, Region5,
    [Region13 EXCEPT !.variantes = SelectSeq(@, NoEs13)],
    Region6, Region7, Region16, Region8, Region9, Region14, Region10, Region11, Region12>>

RegionesINE ==
  <<Region15, Region1, Region2, Region3, Region4, Region5, Region13, Region6, Region7, Region16, Region8, Region9, Region14, Region10, Region11, Region12>>

(***************************************************************************)
(* Unicode data used by _normalizar_texto, for the modelled universe.      *)
(***************************************************************************)
\* str.isspace() characters, which are also the characters \s matches
Espacios == {9, 10, 11, 12, 13, 28, 29, 30, 31, 32, 133, 160}

\* unicodedata.category(c) == 'Mn'
MarcasMn == 768..879

\* unicodedata.category(c) == 'Lu'
Mayusculas == (65..90) \cup (192..214) \cup (216..222)

\* canonical decompositions (unicodedata.normalize('NFD', c) # c)
DescomposicionCanonica ==
  (192 :> <<65,768>>) @@ (193 :> <<65,769>>) @@ (194 :> <<65,770>>) @@ (195 :> <<65,771>>) @@
  (196 :> <<65,776>>) @@ (197 :> <<65,778>>) @@ (199 :> <<67,807>>) @@ (200 :> <<69,768>>) @@
  (201 :> <<69,769>>) @@ (202 :> <<69,770>>) @@ (203 :> <<69,776>>) @@ (204 :> <<73,768>>) @@
  (205 :> <<73,769>>) @@ (206 :> <<73,770>>) @@ (207 :> <<73,776>>) @@ (209 :> <<78,771>>) @@
  (210 :> <<79,768>>) @@ (211 :> <<79,769>>) @@ (212 :> <<79,770>>) @@ (213 :> <<79,771>>) @@
  (214 :> <<79,776>>) @@ (217 :> <<85,768>>) @@ (218 :> <<85,769>>) @@ (219 :> <<85,770>>) @@
  (220 :> <<85,776>>) @@ (221 :> <<89,769>>) @@ (224 :> <<97,768>>) @@ (225 :> <<97,769>>) @@
  (226 :> <<97,770>>) @@ (227 :> <<97,771>>) @@ (228 :> <<97,776>>) @@ (229 :> <<97,778>>) @@
  (231 :> <<99,807>>) @@ (232 :> <<101,768>>) @@ (233 :> <<101,769>>) @@ (234 :> <<101,770>>) @@
  (235 :> <<101,776>>) @@ (236 :> <<105,768>>) @@ (237 :> <<105,769>>) @@ (238 :> <<105,770>>) @@
  (239 :> <<105,776>>) @@ (241 :> <<110,771>>) @@ (242 :> <<111,768>>) @@ (243 :> <<111,769>>) @@
  (244 :> <<111,770>>) @@ (245 :> <<111,771>>) @@ (246 :> <<111,776>>) @@ (249 :> <<117,768>>) @@
  (250 :> <<117,769>>) @@ (251 :> <<117,770>>) @@ (252 :> <<117,776>>) @@ (253 :> <<121,769>>) @@
  (255 :> <<121,776>>) @@ (832 :> <<768>>) @@ (833 :> <<769>>) @@ (835 :> <<787>>) @@
  (836 :> <<776,769>>)

(***************************************************************************)
(* Python built-ins on str.                                                *)
(***************************************************************************)
\* unicodedata.normalize('NFD', texto).  Canonical reordering only permutes
\* runs of combining marks, all of which the next step deletes, so the
\* decomposition is applied character by character.
NFDChar(c) ==
  IF c \in DOMAIN DescomposicionCanonica THEN DescomposicionCanonica[c] ELSE <<c>>

\* no decomposition: precomposed letters keep their accents
SinDescomponer(s) == s

RECURSIVE NFD(_)
NFD(s) == IF s = <<>> THEN <<>> ELSE NFDChar(Head(s)) \o NFD(Tail(s))

\* ''.join(c for c in s if unicodedata.category(c) != 'Mn')
IsMn(c) == c \in MarcasMn
NoEsMn(c) == ~IsMn(c)
SinMarcas(s) == SelectSeq(s, NoEsMn)

\* no lowercasing
SinMinuscula(c) == c

\* str.lower()
LowerChar(c) == IF c \in Mayusculas THEN c + 32 ELSE c
Lower(s) == [i \in DOMAIN s |-> LowerChar(s[i])]

\* str.strip()
Strip(s) ==
  LET visibles == {i \in DOMAIN s : s[i] \notin Espacios}
  IN IF visibles = {} THEN <<>>
     ELSE LET primero == CHOOSE i \in visibles : \A j \in visibles : i <= j
              ultimo == CHOOSE i \in visibles : \A j \in visibles : j <= i
          IN SubSeq(s, primero, ultimo)

\* whitespace runs left as they are
SinColapsar(s) == s

\* re.sub(r'\s+', ' ', s): every maximal run of whitespace becomes one space
RECURSIVE ReSubEspacios(_)
ReSubEspacios(s) ==
  IF s = <<>> THEN <<>>
  ELSE IF Head(s) \notin Espacios THEN <<Head(s)>> \o ReSubEspacios(Tail(s))
  ELSE IF Len(s) > 1 /\ s[2] \in Espacios THEN ReSubEspacios(Tail(s))
  ELSE <<32>> \o ReSubEspacios(Tail(s))

\* str(x)
RECURSIVE Digitos(_)
Digitos(n) == IF n < 10 THEN <<48 + n>> ELSE Digitos(n \div 10) \o <<48 + (n % 10)>>
PyStr(x) ==
  IF x.tipo = "str" THEN x.str
  ELSE IF x.tipo = "int"
       THEN IF x.int < 0 THEN <<45>> \o Digitos(-x.int) ELSE Digitos(x.int)
       ELSE <<78, 111, 110, 101>>

(***************************************************************************)
(* ChileDataCleaner._normalizar_texto                                      *)
(***************************************************************************)
\* `not texto`: None and the empty string are falsy
Falsy(texto) == texto.tipo = "None" \/ (texto.tipo = "str" /\ texto.str = <<>>)

\* the steps in another order: marks are removed after the whitespace is cleaned
normalizar_texto_marcas_al_final(texto) ==
  IF Falsy(texto) THEN <<>>
  ELSE SinMarcas(NFD(ReSubEspacios(Strip(Lower(texto.str)))))

normalizar_texto(texto) ==
  IF Falsy(texto) THEN <<>>
  ELSE LET texto_sin_acentos == SinMarcas(NFD(texto.str))
       IN ReSubEspacios(Strip(Lower(texto_sin_acentos)))

(***************************************************************************)
(* Dictionaries.  regiones_ine keeps insertion order (a sequence of        *)
(* entries with distinct codes); the reverse index is a function.          *)
(***************************************************************************)
Claves(d) == {d[i].codigo : i \in DOMAIN d}
Contiene(d, k) == k \in Claves(d)
Obtener(d, k) == d[CHOOSE i \in DOMAIN d : d[i].codigo = k]


(***************************************************************************)
(* ChileDataCleaner.__init__: the reverse index.  The two nested loops     *)
(* execute one assignment d[key] = codigo per official name and variant,   *)
(* entry by entry in insertion order, the official name first.             *)
(***************************************************************************)
Asignacion(texto, codigo) ==
  [clave |-> normalizar_texto(ArgStr(texto)), codigo |-> codigo]

\* only the variants are indexed, not the official name
AsignacionesDe_sin_nombre(r) ==
  [j \in DOMAIN r.variantes |-> Asignacion(r.variantes[j], r.codigo)]

AsignacionesDe(r) ==
  <<Asignacion(r.nombre_oficial, r.codigo)>>
    \o [j \in DOMAIN r.variantes |-> Asignacion(r.variantes[j], r.codigo)]

RECURSIVE Asignaciones(_)
Asignaciones(regiones) ==
  IF regiones = <<>> THEN <<>>
  ELSE AsignacionesDe(Head(regiones)) \o Asignaciones(Tail(regiones))

\* the dict left by executing d[clave] = codigo for each assignment in order:
\* a key holds the value of the last assignment made to it
Ultima(asignaciones, k) ==
  CHOOSE i \in DOMAIN asignaciones :
    /\ asignaciones[i].clave = k
    /\ \A j \in DOMAIN asignaciones : asignaciones[j].clave = k => j <= i

Ejecutar(asignaciones) ==
  [k \in {asignaciones[i].clave : i \in DOMAIN asignaciones} |->
     asignaciones[Ultima(asignaciones, k)].codigo]

ConstruirIndice(regiones) == Ejecutar(Asignaciones(regiones))

\* the instance as __init__ leaves it
Constructor ==
  [regiones_ine |-> RegionesINE,
   variantes_a_codigo |-> ConstruirIndice(RegionesINE)]

\* __init__'s loops, statement by statement.  The place in them: the entry
\* (region) and the variant reached; variant 0 is the official name
Posicion(i, j) == [region |-> i, variante |-> j]

Siguiente(regiones, p) ==
  IF p.variante < Len(regiones[p.region].variantes)
  THEN Posicion(p.region, p.variante + 1)
  ELSE Posicion(p.region + 1, 0)

\* the place after the last entry of the shipped table
Construido == Posicion(Len(RegionesINE) + 1, 0)

\* d.setdefault(k, v): a key already present keeps its value
SetDefault(d, k, v) ==
  IF k \in DOMAIN d THEN d
  ELSE [x \in (DOMAIN d) \cup {k} |-> IF x = k THEN v ELSE d[x]]

\* d[k] = v
SetItem(d, k, v) == [x \in (DOMAIN d) \cup {k} |-> IF x = k THEN v ELSE d[x]]

Self == [regiones_ine |-> regiones_ine, variantes_a_codigo |-> variantes_a_codigo]

(***************************************************************************)
(* The outcome of a call: the value returned, the exception raised ("" if  *)
(* none) and the attributes and helpers of the instance it consulted.      *)
(***************************************************************************)
Retorna(v, t) == [retorno |-> v, error |-> "", traza |-> t]
Lanza(e, t) == [retorno |-> None, error |-> e, traza |-> t]

\* d[k] in place of d.get(k): a KeyError when k is not a key
Subscript(d, k) ==
  IF k \in DOMAIN d THEN Retorna(Some(d[k]), {}) ELSE Lanza("KeyError", {})

\* d.get(k, 13): a missing key falls back to a default code
Get_con_defecto(d, k) ==
  IF k \in DOMAIN d THEN Retorna(Some(d[k]), {}) ELSE Retorna(Some(13), {})

\* dict.get(k): the value under k, None when k is not a key; it never raises
Get(d, k) == IF k \in DOMAIN d THEN Retorna(Some(d[k]), {}) ELSE Retorna(None, {})

Region(codigo, nombre_oficial) == [codigo |-> codigo, nombre_oficial |-> nombre_oficial]

(***************************************************************************)
(* ChileDataCleaner.normalizar_region                                      *)
(***************************************************************************)
\* the name handed back in its normalized form, as the index keys are
NombreDe_normalizado(self, codigo, t) ==
  IF Contiene(self.regiones_ine, codigo)
  THEN Retorna(Some(Region(codigo,
         normalizar_texto(ArgStr(Obtener(self.regiones_ine, codigo).nombre_oficial)))), t)
  ELSE Lanza("KeyError", t)

\* self.regiones_ine[codigo][0]: a KeyError when codigo is not a key
NombreDe(self, codigo, t) ==
  IF Contiene(self.regiones_ine, codigo)
  THEN Retorna(Some(Region(codigo, Obtener(self.regiones_ine, codigo).nombre_oficial)), t)
  ELSE Lanza("KeyError", t)

\* normalizar_region without the isinstance(region_input, int) branch:
\* an integer goes through str(), the normalizer and the reverse index
normalizar_region_sin_rama_int(self, region_input) ==
  IF region_input.tipo = "None" THEN Retorna(None, {})
  ELSE LET region_normalizada == normalizar_texto(ArgStr(PyStr(region_input)))
           busqueda == Get(self.variantes_a_codigo, region_normalizada)
       IN IF busqueda.retorno # None
          THEN NombreDe(self, busqueda.retorno[1],
                        {"_normalizar_texto", "_variantes_a_codigo", "regiones_ine"})
          ELSE Retorna(None, {"_normalizar_texto", "_variantes_a_codigo"})

normalizar_region(self, region_input) ==
  IF region_input.tipo = "None" THEN Retorna(None, {})
  ELSE IF region_input.tipo = "int"
  THEN IF Contiene(self.regiones_ine, region_input.int)
       THEN NombreDe(self, region_input.int, {"regiones_ine"})
       ELSE Retorna(None, {"regiones_ine"})
  ELSE LET region_str == PyStr(region_input)
           region_normalizada == normalizar_texto(ArgStr(region_str))
           busqueda == Get(self.variantes_a_codigo, region_normalizada)
           codigo == busqueda.retorno
       IN IF busqueda.error # ""
          THEN Lanza(busqueda.error, {"_normalizar_texto", "_variantes_a_codigo"})
          ELSE IF codigo # None
          THEN NombreDe(self, codigo[1],
                        {"_normalizar_texto", "_variantes_a_codigo", "regiones_ine"})
          ELSE Retorna(None, {"_normalizar_texto", "_variantes_a_codigo"})

(***************************************************************************)
(* ChileDataCleaner.listar_regiones                                        *)
(***************************************************************************)
\* sorted(regiones, key=lambda x: x['codigo']): a stable sort, so the element
\* placed at position k is the one that k - 1 others precede
Precede(regiones, j, i) ==
  \/ regiones[j].codigo < regiones[i].codigo
  \/ regiones[j].codigo = regiones[i].codigo /\ j < i

\* the list returned as built, without sorting
SinOrdenar(regiones) == regiones

Sorted(regiones) ==
  [k \in 1..Len(regiones) |->
     regiones[CHOOSE i \in 1..Len(regiones) :
                Cardinality({j \in 1..Len(regiones) : Precede(regiones, j, i)}) = k - 1]]

listar_regiones(self) ==
  LET regiones == [i \in DOMAIN self.regiones_ine |->
                     Region(self.regiones_ine[i].codigo, self.regiones_ine[i].nombre_oficial)]
  IN Retorna(Sorted(regiones), {"regiones_ine"})

(***************************************************************************)
(* ChileDataCleaner.validar_region                                         *)
(***************************************************************************)
\* validar_region with a test of its own: only integer codes are valid
validar_region_solo_codigos(self, region_input) ==
  Retorna(region_input.tipo = "int" /\ Contiene(self.regiones_ine, region_input.int),
          {"regiones_ine"})

validar_region(self, region_input) ==
  LET r == normalizar_region(self, region_input)
  IN IF r.error # "" THEN r ELSE Retorna(r.retorno # None, r.traza)

(***************************************************************************)
(* normalizar_region_chile: the module-level convenience function.  Every  *)
(* call constructs an instance of its own and drops it on return.          *)
(***************************************************************************)
\* an instance built from a table that lacks region 13
ConstructorSin13 ==
  [regiones_ine |-> RegionesINE_sin_13,
   variantes_a_codigo |-> ConstruirIndice(RegionesINE_sin_13)]

normalizar_region_chile_sin_13(region) ==
  LET r == normalizar_region(ConstructorSin13, region)
  IN [r EXCEPT !.traza = @ \cup {"__init__"}]

normalizar_region_chile(region) ==
  LET cleaner == Constructor
      r == normalizar_region(cleaner, region)
  IN [r EXCEPT !.traza = @ \cup {"__init__"}]

(***************************************************************************)
(* The instance after a call.  No method assigns to self.regiones_ine or   *)
(* self._variantes_a_codigo, or calls a mutator on them: _normalizar_texto *)
(* works on locals, normalizar_region reads with `in`, [] and .get,        *)
(* listar_regiones appends to a local list and sorted() returns a new one. *)
(***************************************************************************)
\* normalizar_region remembering the raw text of a hit as a new index key
InstanciaTras_aprende(nombre, self, region_input) ==
  LET r == normalizar_region(self, region_input)
  IN IF nombre = "normalizar_region" /\ region_input.tipo = "str"
        /\ r.error = "" /\ r.retorno # None
     THEN [self EXCEPT !.variantes_a_codigo =
             (region_input.str :> r.retorno[1].codigo) @@ @]
     ELSE self

\* normalizar_region taking the key out of the index (.pop for .get)
InstanciaTras_consume(nombre, self, region_input) ==
  LET clave == normalizar_texto(ArgStr(PyStr(region_input)))
  IN IF nombre \in {"normalizar_region", "validar_region"} /\ region_input.tipo = "str"
        /\ clave \in DOMAIN self.variantes_a_codigo
     THEN [self EXCEPT !.variantes_a_codigo =
             [k \in (DOMAIN @) \ {clave} |-> @[k]]]
     ELSE self

InstanciaTras(nombre, self, region_input) == self

(***************************************************************************)
(* Inputs.                                                                 *)
(***************************************************************************)
\* i I v i-acute I-acute combining-acute space tab 1
Alfabeto == {105, 73, 118, 237, 205, 769, 32, 9, 49}

CadenasCortas == UNION {[1..k -> Alfabeto] : k \in 0..MaxLen}

\* every official name and variant of the registry, as written
CadenasRegistro ==
  UNION {{RegionesINE[i].nombre_oficial}
           \cup {RegionesINE[i].variantes[j] : j \in DOMAIN RegionesINE[i].variantes}
         : i \in DOMAIN RegionesINE}

\* the inputs of the documented examples
S_valpo == <<118,97,108,112,111>>  \* "valpo"
S_RM == <<82,77>>  \* "RM"
S_rm == <<114,109>>  \* "rm"
S_VIII_region == <<86,73,73,73,32,114,101,103,105,243,110>>  \* "VIII regi\xf3n"
S_bio_bio == <<98,105,111,32,98,105,111>>  \* "bio bio"
S_bio___bio == <<98,105,111,32,32,32,98,105,111>>  \* "bio   bio"
S_Valparaiso == <<86,97,108,112,97,114,97,237,115,111>>  \* "Valpara\xedso"
S_valparaiso == <<118,97,108,112,97,114,97,105,115,111>>  \* "valparaiso"
S_region_inexistente == <<114,101,103,105,111,110,32,105,110,101,120,105,115,116,101,110,116,101>>  \* "region inexistente"
S_Region_Inexistente == <<82,101,103,105,111,110,32,73,110,101,120,105,115,116,101,110,116,101>>  \* "Region Inexistente"
S_Arica == <<65,114,105,99,97>>  \* "Arica"
S_region_del_maule == <<114,101,103,105,243,110,32,100,101,108,32,109,97,117,108,101>>  \* "regi\xf3n del maule"
S_Los_Lagos == <<76,111,115,32,76,97,103,111,115>>  \* "Los Lagos"
S_Metropolitana_de_Santiago == <<77,101,116,114,111,112,111,108,105,116,97,110,97,32,100,101,32,83,97,110,116,105,97,103,111>>  \* "Metropolitana de Santiago"
S_Biobio == <<66,105,111,98,237,111>>  \* "Biob\xedo"

CadenasEjemplo ==
  {S_valpo, S_RM, S_rm, S_VIII_region,
   S_bio_bio, S_bio___bio, S_Valparaiso, S_valparaiso,
   S_region_inexistente, S_Region_Inexistente, S_Arica, S_region_del_maule,
   S_Los_Lagos, S_Metropolitana_de_Santiago, S_Biobio}

\* the lowercase roman numeral of a region code: "i" ... "xvi"
RomanoUnidades ==
  <<<<105>>, <<105,105>>, <<105,105,105>>, <<105,118>>, <<118>>,
    <<118,105>>, <<118,105,105>>, <<118,105,105,105>>, <<105,120>>>>
Romano(n) ==
  (IF n >= 10 THEN <<120>> ELSE <<>>)
    \o (IF n % 10 = 0 THEN <<>> ELSE RomanoUnidades[n % 10])

CadenasRomanas == {Romano(RegionesINE[i].codigo) : i \in DOMAIN RegionesINE}

Cadenas == CadenasCortas \cup CadenasRegistro \cup CadenasEjemplo \cup CadenasRomanas

Enteros == ((-MaxEntero)..MaxEntero) \cup {999}

Entradas == {ArgNone} \cup {ArgInt(n) : n \in Enteros} \cup {ArgStr(s) : s \in Cadenas}

Textos == {ArgNone} \cup {ArgStr(s) : s \in Cadenas}

(***************************************************************************)
(* The state machine: one constructed instance and one caller, who holds   *)
(* an argument and calls the public operations (and the normalizer) on it  *)
(* in any order, any number of times.                                      *)
(***************************************************************************)
Init ==
  /\ regiones_ine = Constructor.regiones_ine
  /\ variantes_a_codigo = Constructor.variantes_a_codigo
  /\ op = "__init__"
  /\ entrada \in Entradas
  /\ retorno = None
  /\ error = ""
  /\ traza = {}
  /\ llamadas = 0
  /\ hilos = <<>>
  /\ construccion = Construido

\* the method `nombre` is called with argument x and ends with outcome r
LlamadaCon(nombre, x, r) ==
  /\ op' = nombre
  /\ entrada' = x
  /\ retorno' = r.retorno
  /\ error' = r.error
  /\ traza' = r.traza
  /\ regiones_ine' = InstanciaTras(nombre, Self, x).regiones_ine
  /\ variantes_a_codigo' = InstanciaTras(nombre, Self, x).variantes_a_codigo

Llamada(nombre, r) ==
  LlamadaCon(nombre, entrada, r) /\ UNCHANGED <<llamadas, hilos, construccion>>

NormalizarTexto ==
  /\ entrada \in Textos
  /\ Llamada("_normalizar_texto", Retorna(normalizar_texto(entrada), {}))

NormalizarRegion == Llamada("normalizar_region", normalizar_region(Self, entrada))

ValidarRegion == Llamada("validar_region", validar_region(Self, entrada))

ListarRegiones == Llamada("listar_regiones", listar_regiones(Self))

NormalizarRegionChile ==
  Llamada("normalizar_region_chile", normalizar_region_chile(entrada))

Next ==
  \/ NormalizarTexto
  \/ NormalizarRegion
  \/ ValidarRegion
  \/ ListarRegiones
  \/ NormalizarRegionChile

Spec == Init /\ [][Next]_vars

(***************************************************************************)
(* A session: one instance, and a caller who passes a new argument with    *)
(* every call, so that calls with different inputs, hits and misses,       *)
(* follow one another in every order.                                      *)
(***************************************************************************)
EntradasSesion ==
  {ArgNone} \cup {ArgInt(n) : n \in {-1, 0, 1, 8, 13, 16, 17, 999}}
    \cup {ArgStr(s) : s \in CadenasEjemplo \cup {<<>>, <<32>>, <<49, 51>>, <<120, 105, 105, 105>>}}

InitSesion ==
  /\ regiones_ine = Constructor.regiones_ine
  /\ variantes_a_codigo = Constructor.variantes_a_codigo
  /\ op = "__init__"
  /\ entrada \in EntradasSesion
  /\ retorno = None
  /\ error = ""
  /\ traza = {}
  /\ llamadas = 0
  /\ hilos = <<>>
  /\ construccion = Construido

Contar ==
  /\ llamadas' = IF llamadas < MaxLlamadas THEN llamadas + 1 ELSE llamadas
  /\ UNCHANGED <<hilos, construccion>>

SesionNormalizarTexto ==
  \E x \in EntradasSesion \cap Textos :
    LlamadaCon("_normalizar_texto", x, Retorna(normalizar_texto(x), {})) /\ Contar

SesionNormalizarRegion ==
  \E x \in EntradasSesion :
    LlamadaCon("normalizar_region", x, normalizar_region(Self, x)) /\ Contar

SesionValidarRegion ==
  \E x \in EntradasSesion :
    LlamadaCon("validar_region", x, validar_region(Self, x)) /\ Contar

SesionListarRegiones ==
  LlamadaCon("listar_regiones", entrada, listar_regiones(Self)) /\ Contar

SesionNormalizarRegionChile ==
  \E x \in EntradasSesion :
    LlamadaCon("normalizar_region_chile", x, normalizar_region_chile(x)) /\ Contar

NextSesion ==
  \/ SesionNormalizarRegionChile
  \/ SesionNormalizarTexto
  \/ SesionNormalizarRegion
  \/ SesionValidarRegion
  \/ SesionListarRegiones

SpecSesion == InitSesion /\ [][NextSesion]_vars

(***************************************************************************)
(* Concurrent callers of one shared instance, without locks.  A call runs  *)
(* statement by statement; between two statements of one caller the other  *)
(* callers may run.  Locals (region_normalizada, codigo, regiones) belong   *)
(* to the call; regiones_ine and _variantes_a_codigo are shared.           *)
(***************************************************************************)
Hilos == 1..MaxHilos

\* the calls the callers make, one for every path through normalizar_region:
\* None, a known and an unknown code, a known and an unknown name
LlamadasConcurrentes ==
  {<<"normalizar_region", ArgNone>>,
   <<"normalizar_region", ArgInt(13)>>,
   <<"normalizar_region", ArgStr(S_RM)>>,
   <<"validar_region", ArgInt(999)>>,
   <<"validar_region", ArgStr(S_region_inexistente)>>}

EntradasConcurrentes == {l[2] : l \in LlamadasConcurrentes}

\* what self._normalizar_texto(str(region_input)) yields for each argument the
\* callers pass
ClaveDe == [x \in EntradasConcurrentes |-> normalizar_texto(ArgStr(PyStr(x)))]

\* retorno holds what normalizar_region returns, valido what validar_region
\* returns and lista what listar_regiones returns
Ocioso ==
  [pc |-> "ocioso", op |-> "", entrada |-> ArgNone, clave |-> <<>>, codigo |-> None,
   regiones |-> <<>>, retorno |-> None, valido |-> FALSE, lista |-> <<>>, error |-> ""]

\* the value a finished normalizar_region hands to its caller: itself, or
\* `... is not None` when validar_region made the call
Entrega(h, r) ==
  IF r.error # "" THEN [h EXCEPT !.pc = "fin", !.retorno = None, !.error = r.error]
  ELSE IF h.op = "validar_region"
  THEN [h EXCEPT !.pc = "fin", !.valido = r.retorno # None]
  ELSE [h EXCEPT !.pc = "fin", !.retorno = r.retorno]

InitConcurrente ==
  /\ regiones_ine = Constructor.regiones_ine
  /\ variantes_a_codigo = Constructor.variantes_a_codigo
  /\ op = "__init__"
  /\ entrada = ArgNone
  /\ retorno = None
  /\ error = ""
  /\ traza = {}
  /\ llamadas = 0
  /\ hilos = [i \in Hilos |-> Ocioso]
  /\ construccion = Construido

SinEfecto ==
  UNCHANGED <<regiones_ine, variantes_a_codigo, op, entrada, retorno, error, traza, llamadas,
              construccion>>

\* the call returns: whatever the method did to the instance has taken effect
Termina(i, h) ==
  /\ hilos' = [hilos EXCEPT ![i] = h]
  /\ regiones_ine' = InstanciaTras(h.op, Self, h.entrada).regiones_ine
  /\ variantes_a_codigo' = InstanciaTras(h.op, Self, h.entrada).variantes_a_codigo
  /\ UNCHANGED <<op, entrada, retorno, error, traza, llamadas, construccion>>

Sigue(i, h) == hilos' = [hilos EXCEPT ![i] = h] /\ SinEfecto

\* a caller at rest calls normalizar_region or validar_region
LlamarRegion(i) ==
  /\ hilos[i].pc \in {"ocioso", "fin"}
  /\ \E l \in LlamadasConcurrentes :
       Sigue(i, [Ocioso EXCEPT !.pc = "inicio", !.op = l[1], !.entrada = l[2]])

\* ... or listar_regiones
LlamarListar(i) ==
  /\ hilos[i].pc \in {"ocioso", "fin"}
  /\ Sigue(i, [Ocioso EXCEPT !.pc = "inicio", !.op = "listar_regiones"])

\* if region_input is None: return None
PasoNone(i) ==
  /\ hilos[i].pc = "inicio" /\ hilos[i].op # "listar_regiones"
  /\ hilos[i].entrada.tipo = "None"
  /\ Termina(i, Entrega(hilos[i], Retorna(None, {})))

\* if isinstance(region_input, int): if region_input in self.regiones_ine
PasoEntero(i) ==
  /\ hilos[i].pc = "inicio" /\ hilos[i].op # "listar_regiones"
  /\ hilos[i].entrada.tipo = "int"
  /\ IF Contiene(regiones_ine, hilos[i].entrada.int)
     THEN Sigue(i, [hilos[i] EXCEPT !.pc = "buscado", !.codigo = Some(hilos[i].entrada.int)])
     ELSE Termina(i, Entrega(hilos[i], Retorna(None, {})))

\* region_normalizada = self._normalizar_texto(str(region_input))
PasoNormalizar(i) ==
  /\ hilos[i].pc = "inicio" /\ hilos[i].op # "listar_regiones"
  /\ hilos[i].entrada.tipo = "str"
  /\ Sigue(i, [hilos[i] EXCEPT !.pc = "normalizado", !.clave = ClaveDe[hilos[i].entrada]])

\* codigo = self._variantes_a_codigo.get(region_normalizada)
PasoBuscar(i) ==
  /\ hilos[i].pc = "normalizado"
  /\ LET busqueda == Get(variantes_a_codigo, hilos[i].clave)
     IN IF busqueda.error # ""
        THEN Termina(i, Entrega(hilos[i], busqueda))
        ELSE Sigue(i, [hilos[i] EXCEPT !.pc = "buscado", !.codigo = busqueda.retorno])

\* return {'codigo': ..., 'nombre_oficial': self.regiones_ine[codigo][0]}, or None
PasoRetornar(i) ==
  /\ hilos[i].pc = "buscado"
  /\ IF hilos[i].codigo # None
     THEN Termina(i, Entrega(hilos[i], NombreDe(Self, hilos[i].codigo[1], {})))
     ELSE Termina(i, Entrega(hilos[i], Retorna(None, {})))

\* the loop of listar_regiones over self.regiones_ine.items()
PasoListar(i) ==
  /\ hilos[i].pc = "inicio" /\ hilos[i].op = "listar_regiones"
  /\ Sigue(i, [hilos[i] EXCEPT !.pc = "listado",
                               !.regiones = [j \in DOMAIN regiones_ine |->
                                  Region(regiones_ine[j].codigo, regiones_ine[j].nombre_oficial)]])

\* return sorted(regiones, key=lambda x: x['codigo'])
PasoOrdenar(i) ==
  /\ hilos[i].pc = "listado"
  /\ Termina(i, [hilos[i] EXCEPT !.pc = "fin", !.lista = Sorted(hilos[i].regiones)])

Paso(i) ==
  \/ PasoNone(i)
  \/ PasoEntero(i)
  \/ PasoNormalizar(i)
  \/ PasoBuscar(i)
  \/ PasoRetornar(i)
  \/ PasoListar(i)
  \/ PasoOrdenar(i)

NextConcurrente == \E i \in Hilos : LlamarRegion(i) \/ LlamarListar(i) \/ Paso(i)

SpecConcurrente == InitConcurrente /\ [][NextConcurrente]_vars

\* the interpreter keeps scheduling every thread that can run
SpecConcurrenteJusta == SpecConcurrente /\ \A i \in Hilos : WF_vars(Paso(i))

(***************************************************************************)
(* Construction over any registry table.  __init__ with its table replaced *)
(* by a small one whose names may normalize to the same key: entries with  *)
(* distinct codes, an official name and at most one variant each.          *)
(***************************************************************************)
\* "a", "\xc1" (which normalizes to "a") and "b"
NombresTabla == {<<97>>, <<193>>, <<98>>}

EntradasTabla ==
  [codigo : 1..MaxRegiones,
   nombre_oficial : NombresTabla,
   variantes : {<<>>} \cup {<<n>> : n \in NombresTabla}]

\* a dict holds each code once
Tablas ==
  UNION {{t \in [1..n -> EntradasTabla] :
            \A i, j \in 1..n : i # j => t[i].codigo # t[j].codigo}
         : n \in 0..MaxRegiones}

InitTablas ==
  /\ regiones_ine \in Tablas
  /\ variantes_a_codigo = <<>>
  /\ op = "__init__"
  /\ entrada = ArgNone
  /\ retorno = None
  /\ error = ""
  /\ traza = {}
  /\ llamadas = 0
  /\ hilos = <<>>
  /\ construccion = Posicion(1, 0)

EnConstruccion == construccion.region <= Len(regiones_ine)

Asigna(texto, codigo) ==
  /\ variantes_a_codigo' = SetItem(variantes_a_codigo, normalizar_texto(ArgStr(texto)), codigo)
  /\ construccion' = Siguiente(regiones_ine, construccion)
  /\ UNCHANGED <<regiones_ine, op, entrada, retorno, error, traza, llamadas, hilos>>

\* self._variantes_a_codigo[self._normalizar_texto(nombre_oficial)] = codigo
AsignarNombre ==
  /\ EnConstruccion /\ construccion.variante = 0
  /\ LET r == regiones_ine[construccion.region]
     IN Asigna(r.nombre_oficial, r.codigo)

\* self._variantes_a_codigo[self._normalizar_texto(variante)] = codigo
AsignarVariante ==
  /\ EnConstruccion /\ construccion.variante > 0
  /\ LET r == regiones_ine[construccion.region]
     IN Asigna(r.variantes[construccion.variante], r.codigo)

NextTablas == AsignarNombre \/ AsignarVariante

SpecTablas == InitTablas /\ [][NextTablas]_vars

(***************************************************************************)
(* Properties.                                                             *)
(***************************************************************************)
Acierto == error = "" /\ retorno # None
Str13 == <<49, 51>>
NombresDe(r) == {r.nombre_oficial} \cup {r.variantes[j] : j \in DOMAIN r.variantes}

\* C1: for every region code c of the registry, normalizar_region(c) with the
\* integer c and normalizar_region(str(c)) with its decimal string both succeed
\* and return the same codigo and the same nombre_oficial.
C1_EnteroYCadenaCoinciden ==
  (op = "normalizar_region" /\ entrada.tipo = "int" /\ Contiene(regiones_ine, entrada.int)) =>
    LET s == normalizar_region(Self, ArgStr(PyStr(entrada)))
    IN /\ Acierto
       /\ s.error = "" /\ s.retorno # None
       /\ s.retorno[1].codigo = retorno[1].codigo
       /\ s.retorno[1].nombre_oficial = retorno[1].nombre_oficial

C1_Testigo ==
  /\ op = "normalizar_region" /\ entrada.tipo = "int" /\ entrada.int = 13
  /\ Acierto
  /\ normalizar_region(Self, ArgStr(Str13)).retorno = retorno

\* C2: listar_regiones() returns exactly 16 entries whose codes are exactly
\* 1..16, strictly ascending, each with the official name the registry holds
\* for its code, although the registry is not written in ascending order.
C2_ListaCompletaOrdenada ==
  op = "listar_regiones" =>
    /\ error = ""
    /\ Len(retorno) = 16
    /\ {retorno[i].codigo : i \in DOMAIN retorno} = 1..16
    /\ \A i \in DOMAIN retorno : \A j \in DOMAIN retorno :
         i < j => retorno[i].codigo < retorno[j].codigo
    /\ \A i \in DOMAIN retorno :
         /\ Contiene(regiones_ine, retorno[i].codigo)
         /\ retorno[i].nombre_oficial = Obtener(regiones_ine, retorno[i].codigo).nombre_oficial

C2_Testigo ==
  /\ op = "listar_regiones"
  /\ \E i \in 1..(Len(regiones_ine) - 1) : regiones_ine[i].codigo > regiones_ine[i + 1].codigo
  /\ retorno[1].codigo = 1 /\ retorno[Len(retorno)].codigo = 16

\* C3: a textual input is a hit if and only if its normalized form equals the
\* normalized form of some region's official name or listed variant; a
\* numeric-looking string is matched through the reverse index too, not
\* through the integer path.
C3_AciertoSiiClaveDelRegistro ==
  (op = "normalizar_region" /\ entrada.tipo = "str") =>
    /\ error = ""
    /\ (retorno # None) <=>
         \E i \in DOMAIN regiones_ine : \E v \in NombresDe(regiones_ine[i]) :
           normalizar_texto(entrada) = normalizar_texto(ArgStr(v))
    /\ {"_normalizar_texto", "_variantes_a_codigo"} \subseteq traza

C3_Testigo ==
  /\ op = "normalizar_region" /\ entrada = ArgStr(<<32, 49, 49>>)
  /\ Acierto /\ retorno[1].codigo = 11
  /\ "_variantes_a_codigo" \in traza

\* C4: for an integer input n, normalizar_region(n) succeeds if and only if n
\* is a region code of the registry; on success it returns codigo = n and that
\* region's official name unchanged; neither the reverse index nor the text
\* normalizer is consulted (0, negative integers and integers above 16 are
\* not-found).
C4_EnteroSoloPorRegistro ==
  (op = "normalizar_region" /\ entrada.tipo = "int") =>
    /\ error = ""
    /\ (retorno # None) <=> Contiene(regiones_ine, entrada.int)
    /\ (retorno # None) <=> entrada.int \in 1..16
    /\ retorno # None =>
         /\ retorno[1].codigo = entrada.int
         /\ retorno[1].nombre_oficial = Obtener(regiones_ine, entrada.int).nombre_oficial
    /\ traza \cap {"_normalizar_texto", "_variantes_a_codigo"} = {}

C4_Testigo ==
  /\ op = "normalizar_region" /\ entrada.tipo = "int" /\ entrada.int = 16
  /\ Acierto /\ retorno[1].codigo = 16
  /\ traza = {"regiones_ine"}

\* C5: normalizar_region never ends in an error: for None, for every integer
\* and for every string (the empty string and whitespace-only strings
\* included) it returns a {codigo, nombre_oficial} record or None.
C5_NuncaError ==
  op = "normalizar_region" =>
    /\ error = ""
    /\ \/ retorno = None
       \/ /\ Len(retorno) = 1
          /\ DOMAIN retorno[1] = {"codigo", "nombre_oficial"}

C5_Testigo ==
  /\ op = "normalizar_region" /\ entrada = ArgStr(<<32, 9>>)
  /\ error = "" /\ retorno = None

\* C6: for every input x (None, integer or string), validar_region(x) is true
\* if and only if normalizar_region(x) is not None.
C6_ValidarSiiNormaliza ==
  op = "validar_region" =>
    /\ error = ""
    /\ retorno \in BOOLEAN
    /\ retorno <=> (normalizar_region(Self, entrada).retorno # None)

C6_Testigo ==
  /\ op = "validar_region" /\ entrada = ArgStr(S_Valparaiso)
  /\ retorno = TRUE

\* C7: the text normalizer is idempotent: normalizing its own result again
\* gives the same result.
C7_NormalizadorIdempotente ==
  op = "_normalizar_texto" => normalizar_texto(ArgStr(retorno)) = retorno

C7_Testigo ==
  /\ op = "_normalizar_texto" /\ entrada = ArgStr(<<32, 205, 9>>)
  /\ retorno = <<105>>

(***************************************************************************)
(* The single edits under which two texts "differ only" in diacritics, in  *)
(* letter case, in the length of a whitespace run or in leading/trailing   *)
(* whitespace.  Two such texts are linked by a chain of these edits.       *)
(***************************************************************************)
Reemplazar(s, i, t) == SubSeq(s, 1, i - 1) \o t \o SubSeq(s, i + 1, Len(s))
InsertarTras(s, i, t) == SubSeq(s, 1, i) \o t \o SubSeq(s, i + 1, Len(s))

Minusculas == (97..122) \cup (224..246) \cup (248..254)
Letras == Mayusculas \cup Minusculas
OtraCaja(c) ==
  IF c \in Mayusculas THEN c + 32 ELSE IF c \in Minusculas THEN c - 32 ELSE c

\* the precomposed forms of a base letter, and the marks tried on a letter
Acentuadas(c) ==
  {p \in DOMAIN DescomposicionCanonica :
     Len(DescomposicionCanonica[p]) = 2 /\ DescomposicionCanonica[p][1] = c}
MarcasDePrueba == {769, 771, 776}
BlancosDePrueba == {32, 9}

CambiosDeCaja(s) == {Reemplazar(s, i, <<OtraCaja(s[i])>>) : i \in DOMAIN s}

CambiosDeAcento(s) ==
  UNION {
    \* a letter gains a diacritic, precomposed or as a combining mark
    {Reemplazar(s, i, <<p>>) : p \in Acentuadas(s[i])}
      \cup (IF s[i] \in Letras
            THEN {InsertarTras(s, i, <<m>>) : m \in MarcasDePrueba} ELSE {})
    \* a letter loses its diacritic
      \cup (IF s[i] \in DOMAIN DescomposicionCanonica /\ s[i] \in Letras
            THEN {Reemplazar(s, i, <<DescomposicionCanonica[s[i]][1]>>)} ELSE {})
      \cup (IF s[i] \in MarcasMn THEN {Reemplazar(s, i, <<>>)} ELSE {})
    : i \in DOMAIN s}

CambiosDeBlancos(s) ==
  \* a whitespace run grows or shrinks by one character, staying a run
  (UNION {
    (IF s[i] \in Espacios
     THEN {InsertarTras(s, i, <<b>>) : b \in BlancosDePrueba} ELSE {})
      \cup (IF s[i] \in Espacios /\ i < Len(s) /\ s[i + 1] \in Espacios
            THEN {Reemplazar(s, i, <<>>)} ELSE {})
    : i \in DOMAIN s})
  \* leading or trailing whitespace appears or disappears
  \cup {<<b>> \o s : b \in BlancosDePrueba} \cup {s \o <<b>> : b \in BlancosDePrueba}
  \cup (IF s # <<>> /\ s[1] \in Espacios THEN {Tail(s)} ELSE {})
  \cup (IF s # <<>> /\ s[Len(s)] \in Espacios THEN {SubSeq(s, 1, Len(s) - 1)} ELSE {})

Variaciones(s) == CambiosDeCaja(s) \cup CambiosDeAcento(s) \cup CambiosDeBlancos(s)

\* C8: normalizar_region is insensitive to accents, letter case and whitespace
\* runs: a text that differs from the input only in the presence of
\* diacritics, in the case of letters, in the length of whitespace runs or in
\* leading/trailing whitespace resolves to the same result (same hit, or both
\* not-found).
C8_InsensibleAcentosCajaBlancos ==
  (op = "normalizar_region" /\ entrada.tipo = "str") =>
    \A t \in Variaciones(entrada.str) :
      LET r == normalizar_region(Self, ArgStr(t))
      IN r.error = error /\ r.retorno = retorno

C8_Testigo ==
  /\ op = "normalizar_region" /\ entrada = ArgStr(S_bio___bio)
  /\ Acierto /\ retorno[1].codigo = 8
  /\ normalizar_region(Self, ArgStr(S_bio_bio)).retorno = retorno

C10_EjemplosDocumentados ==
  op = "normalizar_region" =>
    /\ entrada = ArgStr(S_valpo) =>
         error = "" /\ retorno = Some(Region(5, S_Valparaiso))
    /\ entrada = ArgStr(S_RM) =>
         error = "" /\ retorno = Some(Region(13, S_Metropolitana_de_Santiago))
    /\ entrada = ArgInt(8) =>
         error = "" /\ retorno = Some(Region(8, S_Biobio))
    /\ entrada = ArgStr(S_VIII_region) =>
         error = "" /\ retorno = Some(Region(8, S_Biobio))
    /\ entrada = ArgStr(S_bio_bio) =>
         error = "" /\ retorno = Some(Region(8, S_Biobio))

C10_Testigo ==
  /\ op = "normalizar_region" /\ entrada = ArgStr(S_VIII_region)
  /\ retorno = Some(Region(8, S_Biobio))

\* C11: inputs that name no region are reported as not-found:
\* normalizar_region("region inexistente"), normalizar_region(None) and
\* normalizar_region(999) return None, and
\* validar_region("region inexistente") returns False.
C11_EntradasDesconocidas ==
  /\ (op = "normalizar_region" /\ entrada = ArgStr(S_region_inexistente)) =>
       error = "" /\ retorno = None
  /\ (op = "normalizar_region" /\ entrada = ArgNone) =>
       error = "" /\ retorno = None
  /\ (op = "normalizar_region" /\ entrada = ArgInt(999)) =>
       error = "" /\ retorno = None
  /\ (op = "validar_region" /\ entrada = ArgStr(S_region_inexistente)) =>
       error = "" /\ retorno = FALSE

C11_Testigo ==
  /\ op = "validar_region" /\ entrada = ArgStr(S_region_inexistente)
  /\ error = "" /\ retorno = FALSE

\* C12: the registry and the reverse index are immutable after construction:
\* after any sequence of normalizar_region, validar_region and
\* listar_regiones calls on one instance, with any inputs, hits or misses,
\* regiones_ine and _variantes_a_codigo equal their constructed values, and a
\* call returns what the same input returns on a fresh instance, whatever
\* calls came before.
C12_InmutableTrasConstruccion ==
  /\ regiones_ine = Constructor.regiones_ine
  /\ variantes_a_codigo = Constructor.variantes_a_codigo
  /\ op = "normalizar_region" =>
       LET r == normalizar_region(Constructor, entrada)
       IN retorno = r.retorno /\ error = r.error
  /\ op = "validar_region" =>
       LET r == validar_region(Constructor, entrada)
       IN retorno = r.retorno /\ error = r.error
  /\ op = "listar_regiones" =>
       LET r == listar_regiones(Constructor)
       IN retorno = r.retorno /\ error = r.error

C12_Testigo ==
  /\ llamadas = MaxLlamadas
  /\ op = "normalizar_region" /\ entrada = ArgStr(S_RM)
  /\ error = "" /\ retorno # None /\ retorno[1].codigo = 13
  /\ variantes_a_codigo = Constructor.variantes_a_codigo

\* a caller is inside a call
EnCurso(i) == hilos[i].pc \notin {"ocioso", "fin"}

\* the instance is as constructed and every finished call holds the result
\* of the same call made alone on that instance
C13_Seguridad ==
  /\ regiones_ine = Constructor.regiones_ine
  /\ variantes_a_codigo = Constructor.variantes_a_codigo
  /\ \A i \in DOMAIN hilos :
       /\ (hilos[i].pc = "fin" /\ hilos[i].op = "normalizar_region") =>
            LET r == normalizar_region(Constructor, hilos[i].entrada)
            IN hilos[i].retorno = r.retorno /\ hilos[i].error = r.error
       /\ (hilos[i].pc = "fin" /\ hilos[i].op = "validar_region") =>
            LET r == validar_region(Constructor, hilos[i].entrada)
            IN hilos[i].valido = r.retorno /\ hilos[i].error = r.error
       /\ (hilos[i].pc = "fin" /\ hilos[i].op = "listar_regiones") =>
            hilos[i].lista = listar_regiones(Constructor).retorno

\* C13: several callers may run normalizar_region, validar_region and
\* listar_regiones on one shared instance in any interleaving without locks:
\* every call in progress completes, every finished call has returned what
\* it returns when run alone, and the registry and the reverse index never
\* differ from their constructed values.
C13_ConcurrenciaSinBloqueos ==
  /\ []C13_Seguridad
  /\ \A i \in Hilos : EnCurso(i) ~> (hilos[i].pc = "fin")

\* two calls overlap: one has looked its key up while the other finished
C13_Testigo ==
  /\ hilos # <<>>
  /\ hilos[1].pc = "buscado" /\ hilos[1].op = "normalizar_region"
  /\ hilos[1].entrada = ArgStr(S_RM) /\ hilos[1].codigo = Some(13)
  /\ hilos[2].pc = "fin" /\ hilos[2].op = "normalizar_region"
  /\ hilos[2].entrada = ArgInt(13) /\ hilos[2].retorno # None

\* C14: normalizar_region_chile(x) returns, for every input x, what
\* normalizar_region(x) returns on a freshly constructed ChileDataCleaner; it
\* constructs its own instance on every call, so earlier calls and the other
\* instance of the program neither change its result nor are changed by it.
C14_FuncionLibreEquivale ==
  op = "normalizar_region_chile" =>
    LET r == normalizar_region(Constructor, entrada)
    IN /\ retorno = r.retorno
       /\ error = r.error
       /\ traza = r.traza \cup {"__init__"}
       /\ regiones_ine = Constructor.regiones_ine
       /\ variantes_a_codigo = Constructor.variantes_a_codigo

\* normalizar_region_chile("RM") has returned region 13
C14_Testigo ==
  /\ op = "normalizar_region_chile" /\ entrada = ArgStr(S_RM)
  /\ error = "" /\ retorno # None
  /\ retorno[1] = Region(13, Region13.nombre_oficial)

\* C15 as stated: for every region code c the lowercase roman numeral of c,
\* alone, resolves to region c.
C15_TodasConRomano ==
  \A c \in Claves(regiones_ine) :
    (op = "normalizar_region" /\ entrada = ArgStr(Romano(c))) =>
      Acierto /\ retorno[1].codigo = c

\* C15, amended: every registry entry except region 13 lists the lowercase
\* roman numeral of its own code among its variants, so for every code c
\* other than 13 that numeral resolves to region c; region 13 lists no
\* "xiii", which is not found.
C15_RomanoSalvoRM ==
  /\ \A i \in DOMAIN regiones_ine :
       LET r == regiones_ine[i]
       IN (Romano(r.codigo) \in {r.variantes[j] : j \in DOMAIN r.variantes})
            <=> r.codigo # 13
  /\ \A c \in Claves(regiones_ine) :
       (op = "normalizar_region" /\ entrada = ArgStr(Romano(c))) =>
         IF c = 13 THEN error = "" /\ retorno = None
         ELSE Acierto /\ retorno[1].codigo = c

\* normalizar_region("xiv") has returned region 14
C15_Testigo ==
  /\ op = "normalizar_region" /\ entrada = ArgStr(Romano(14))
  /\ Acierto /\ retorno[1] = Region(14, Region14.nombre_oficial)

\* the normalized keys derived from the official name and variants of an entry
ClavesDe(r) == {normalizar_texto(ArgStr(n)) : n \in NombresDe(r)}

\* no normalized key is derived from the names of two entries of the table
SinColisiones ==
  \A i, j \in DOMAIN RegionesINE :
    i # j => ClavesDe(RegionesINE[i]) \cap ClavesDe(RegionesINE[j]) = {}

\* C16: the shipped table produces no key collision: no normalized key is
\* derived from the names of two different regions, and so the official name
\* and every listed variant of a region, accented or not, resolve to that
\* region's own code.
C16_SinColisiones ==
  /\ regiones_ine = RegionesINE
  /\ SinColisiones
  /\ \A i \in DOMAIN regiones_ine : \A n \in NombresDe(regiones_ine[i]) :
       (op = "normalizar_region" /\ entrada = ArgStr(n)) =>
         Acierto /\ retorno[1].codigo = regiones_ine[i].codigo

\* normalizar_region("region de \xf1uble"), a variant written with its accent,
\* has returned region 16
C16_Testigo ==
  /\ op = "normalizar_region"
  /\ entrada = ArgStr(<<114,101,103,105,111,110,32,100,101,32,241,117,98,108,101>>)
  /\ entrada.str \in NombresDe(Region16)
  /\ Acierto /\ retorno[1].codigo = 16

\* the last entry of the table, in insertion order, one of whose names
\* normalizes to k
UltimaRegion(regiones, k) ==
  CHOOSE i \in DOMAIN regiones :
    /\ k \in ClavesDe(regiones[i])
    /\ \A j \in DOMAIN regiones : k \in ClavesDe(regiones[j]) => j <= i

\* two entries of the table share a key
HayColision(regiones) ==
  \E i, j \in DOMAIN regiones : i # j /\ ClavesDe(regiones[i]) \cap ClavesDe(regiones[j]) # {}

\* C17: reverse-index construction is last-wins: for any registry table, once
\* constructed the index holds exactly the normalized names as keys, each with
\* the code of the last entry in insertion order whose official name or
\* variant normalizes to it; a collision raises no error and does not keep the
\* earlier code.
C17_UltimaGana ==
  (op = "__init__" /\ ~EnConstruccion) =>
    /\ error = ""
    /\ DOMAIN variantes_a_codigo = UNION {ClavesDe(regiones_ine[i]) : i \in DOMAIN regiones_ine}
    /\ \A k \in DOMAIN variantes_a_codigo :
         variantes_a_codigo[k] = regiones_ine[UltimaRegion(regiones_ine, k)].codigo
    /\ variantes_a_codigo = ConstruirIndice(regiones_ine)

\* a table whose two entries collide on "a" has been indexed; the key holds
\* the later entry's code
C17_Testigo ==
  /\ op = "__init__" /\ ~EnConstruccion
  /\ Len(regiones_ine) = 2 /\ HayColision(regiones_ine)
  /\ regiones_ine[1].nombre_oficial = <<97>> /\ regiones_ine[2].nombre_oficial = <<193>>
  /\ variantes_a_codigo[<<97>>] = regiones_ine[2].codigo

\* C18: every successful normalizar_region result is consistent with the
\* registry: its codigo is one of the 16 registry codes and its nombre_oficial
\* is the official name stored for that codigo, accents and capitals as
\* written there, whatever text the caller passed; it is never a normalized
\* key.
C18_ResultadoDelRegistro ==
  (op = "normalizar_region" /\ Acierto) =>
    /\ retorno[1].codigo \in 1..16
    /\ \E i \in DOMAIN RegionesINE :
         /\ RegionesINE[i].codigo = retorno[1].codigo
         /\ RegionesINE[i].nombre_oficial = retorno[1].nombre_oficial
    /\ retorno[1].nombre_oficial \notin DOMAIN variantes_a_codigo
    /\ retorno[1].nombre_oficial # normalizar_texto(ArgStr(retorno[1].nombre_oficial))

\* normalizar_region("bio bio"): the text passed, the key "bio bio" and the
\* name returned, "Biob\xedo", all differ
C18_Testigo ==
  /\ op = "normalizar_region" /\ entrada = ArgStr(S_bio_bio)
  /\ Acierto /\ retorno[1] = Region(8, Region8.nombre_oficial)
  /\ retorno[1].nombre_oficial # entrada.str
  /\ retorno[1].nombre_oficial # normalizar_texto(entrada)

=============================================================================
